---- MODULE Spec2Model ----
(***************************************************************************)
(* A state-machine model of fda/getdata.py: the four retrieval functions   *)
(* get_sec_companies, get_sec_company_information, get_seccompany_filings  *)
(* and get_fmp_stock_data.  One behaviour is one call of one function:     *)
(* Init draws the function and its arguments, each action is one step of   *)
(* the function's body between two I/O events, and the answers of the file *)
(* system and of the HTTP servers are drawn when the I/O happens.  `io' is *)
(* the history of I/O events (file opens, HTTP GETs, sleeps) of the call.  *)
(***************************************************************************)
EXTENDS Integers, Sequences, FiniteSets, TLC

VARIABLES
    fn,          \* the function called
    args,        \* its arguments
    pc,          \* position in the body: "start", ..., "done", "raised"
    io,          \* I/O events so far, in order
    exc,         \* the exception that left the call, "" while none
    ret,         \* the returned table, <<>> (no value) until the call returns
    r,           \* get_seccompany_filings: the parsed primary document
    table,       \* the running table (filings / company_info)
    k,           \* number of loop iterations completed
    started,     \* get_sec_company_information: company_info is bound
    no_info,     \* get_sec_company_information: skipped entities
    printed,     \* get_sec_company_information: the count printed, -1 before
    loaded,      \* history: what each completed load produced, in order
    failed       \* history: position in io of the first failed fetch, 0 if none

vars == <<fn, args, pc, io, exc, ret, r, table, k, started, no_info, printed,
          loaded, failed>>

-----------------------------------------------------------------------------
(* Bounds of the model. *)

MaxRecent == 2    \* rows of the filings.recent page
MaxShardRows == 1 \* rows of a shard page
MaxBars == 2      \* entries of a price response's `historical'
MaxShards == 2    \* entries of filings.files
MaxRecs == 2      \* value-records of a registry response
MaxReg == 3       \* rows of the registry table given to the extractor

(* Program constants. *)

ZfillWidth == 10  \* .str.zfill(10)
CikLen == 10      \* len(cik) == 10
SleepMs == 100    \* time.sleep(.1)

-----------------------------------------------------------------------------
(* Python values. *)

None == <<>>
Some(x) == <<x>>

\* bool(x) of an optional string: None and "" are falsy.
Truthy(o) == o # None /\ o[1] # ""

RECURSIVE SeqsUpTo(_, _)
\* All sequences over S of length at most n.
SeqsUpTo(S, n) ==
    IF n = 0 THEN {<<>>}
    ELSE LET shorter == SeqsUpTo(S, n - 1)
         IN  shorter \cup {Append(s, x) : s \in shorter, x \in S}

Range(s) == {s[i] : i \in 1..Len(s)}

-----------------------------------------------------------------------------
(* I/O events. *)

OpenEv(path) == [kind |-> "open", path |-> path]
GetEv(url, headers, params) ==
    [kind |-> "GET", url |-> url, headers |-> headers, params |-> params]
SleepEv(ms) == [kind |-> "sleep", ms |-> ms]

\* os.path.join(dir, name)
PathJoin(dir, name) == dir \o "/" \o name

\* The answers of requests.get: it raises on a transport failure and returns
\* a response for every HTTP status; r.json() raises when the body is no JSON.
\* A 200 answer carries one of okBodies, a 404 answer one of errBodies.
Responses(okBodies, errBodies) ==
    {[transport |-> "error"]}
        \cup {[transport |-> "ok", status |-> 200, body |-> b] : b \in okBodies}
        \cup {[transport |-> "ok", status |-> 404, body |-> b] : b \in errBodies}

\* open(path): the file is absent, or holds one of bodies.
Files(bodies) ==
    {[exists |-> FALSE]} \cup {[exists |-> TRUE, body |-> b] : b \in bodies}

\* Bodies that are no JSON, or JSON without the keys the caller reads.
BrokenBodies == {[kind |-> "notjson"], [kind |-> "otherjson"]}

-----------------------------------------------------------------------------
(* Tables: sequences of rows, each row carrying its index label. *)

\* The acceptanceDateTime of a row whose page has no such column.
NaN == 0

\* pd.DataFrame(page): one row per entry, index 0..n-1.
DataFrame(page) ==
    [i \in 1..Len(page) |-> [index |-> i - 1, acceptanceDateTime |-> page[i]]]

\* pd.concat((a, b)): rows of a then rows of b, index labels kept.
Concat(a, b) == a \o b

RECURSIVE InsertBy(_, _, _)
\* Insert row x into the table t, sorted by column `by', after the rows whose
\* value in that column is <= x's.
InsertBy(t, x, by) ==
    IF t = <<>> THEN <<x>>
    ELSE IF x[by] # NaN /\ (Head(t)[by] = NaN \/ x[by] < Head(t)[by])
    THEN <<x>> \o t
    ELSE <<Head(t)>> \o InsertBy(Tail(t), x, by)

SortValuesUnsorted(t, by) == t
RECURSIVE SortValues(_, _)
\* t.sort_values(by = by): ascending, rows without a value last (the default
\* na_position).  Rows that agree on `by' differ in
\* nothing but the index label that reset_index overwrites next, so their
\* relative order, which pandas leaves open, does not show in any result.
SortValues(t, by) ==
    IF t = <<>> THEN <<>>
    ELSE InsertBy(SortValues(SubSeq(t, 1, Len(t) - 1), by), t[Len(t)], by)

\* reset_index(drop = True, inplace = True): index labels become 0..n-1.
ResetIndex(t) == [i \in 1..Len(t) |-> [t[i] EXCEPT !.index = i - 1]]

-----------------------------------------------------------------------------
(* Exceptions: an exception nobody catches ends the call without a value.  *)

Raise(e) == /\ pc' = "raised"
            /\ exc' = e
            /\ ret' = None

-----------------------------------------------------------------------------
(* get_seccompany_filings(cik, submission_dir = None, email = None)        *)

\* A cik argument: a str, or another object with a length (a list, a tuple).
CikArgs ==
    { [isstr |-> TRUE,  val |-> "0000320193"],
      [isstr |-> TRUE,  val |-> "123"],
      [isstr |-> TRUE,  val |-> "00003201930"],
      [isstr |-> FALSE, val |-> "0000320193"] }

DirArgs == {None, Some(""), Some("subs")}
EmailArgs == {None, Some(""), Some("jane@uni.org")}

FilingsArgs ==
    [cik : CikArgs, submission_dir : DirArgs, email : EmailArgs]

CikOkAny(cik) == TRUE
\* assert isinstance(cik, str) and len(cik) == 10
CikOk(cik) == cik.isstr /\ Len(cik.val) = CikLen

\* if not(submission_dir) and not(email): raise ValueError
NoSource(a) == ~Truthy(a.submission_dir) /\ ~Truthy(a.email)

UseLocalUnlessEmail(a) == Truthy(a.submission_dir) /\ ~Truthy(a.email)
\* if submission_dir: ... else: ...
UseLocal(a) == Truthy(a.submission_dir)

\* Values of acceptanceDateTime, as their rank in time order.
AcceptanceTimes == {1, 2}
\* A page of filings: the acceptanceDateTime of each of its rows.
RecentPages == SeqsUpTo(AcceptanceTimes, MaxRecent)
ShardPages == SeqsUpTo(AcceptanceTimes, MaxShardRows)
ShardNames == {"CIK0000320193-submissions-001.json",
               "CIK0000320193-submissions-002.json"}
\* The primary document: r['filings']['recent'] and r['filings']['files'].
PrimaryDocs == [recent : RecentPages, files : SeqsUpTo(ShardNames, MaxShards)]

\* What a primary file or a 200 answer can hold.
PrimaryBodies ==
    BrokenBodies \cup {[kind |-> "doc", doc |-> d] : d \in PrimaryDocs}
\* What a shard file or a 200 answer can hold; "scalars" is a JSON object of
\* scalars only, which pd.DataFrame rejects.
ShardBodies ==
    {[kind |-> "notjson"], [kind |-> "scalars"]}
        \cup {[kind |-> "page", page |-> p] : p \in ShardPages}
\* What an error answer can hold in place of a shard: no JSON, an error
\* object of scalars, or an error object with a list in it, which
\* pd.DataFrame turns into one row without acceptanceDateTime.
ShardErrorBodies ==
    {[kind |-> "notjson"], [kind |-> "scalars"],
     [kind |-> "page", page |-> <<NaN>>]}

PrimaryName(cik) == "CIK" \o cik.val \o ".json"
SubmissionsUrl(name) == "https://data.sec.gov/submissions/" \o name

\* headers = {'User-Agent': email}
FilingsHeaders(a) == "User-Agent" :> a.email[1]
NoParams == <<>>

\* The exception a body raises when it is parsed and used, "" when none.
BodyError(body) ==
    CASE body.kind = "notjson"   -> "JSONDecodeError"
      [] body.kind = "otherjson" -> "KeyError"
      [] body.kind = "scalars"   -> "ValueError"
      [] OTHER                   -> ""

\* The first failed fetch is remembered by its position in io.
NoteFailure(at) == failed' = IF failed = 0 THEN at ELSE failed

FilingsUntouched == UNCHANGED <<fn, args, started, no_info, printed>>

\* Lines 106-109: the two argument checks.
FilingsCheckArgs ==
    /\ fn = "get_seccompany_filings" /\ pc = "start"
    /\ IF ~CikOk(args.cik) THEN Raise("AssertionError")
       ELSE IF NoSource(args) THEN Raise("ValueError")
       ELSE pc' = "primary" /\ UNCHANGED <<exc, ret>>
    /\ UNCHANGED <<io, r, table, k, loaded, failed>>
    /\ FilingsUntouched

\* The seed table from the primary document, or the exception it raises.
FilingsSeed(body) ==
    IF BodyError(body) # ""
    THEN /\ Raise(BodyError(body))
         /\ UNCHANGED <<r, table, k, loaded>>
    ELSE /\ r' = body.doc
         /\ table' = DataFrame(body.doc.recent)
         /\ loaded' = <<body.doc.recent>>
         /\ k' = 0
         /\ pc' = "shards"
         /\ UNCHANGED <<exc, ret>>

\* Lines 135-138: local-file mode, the primary file.
FilingsOpenPrimary ==
    /\ fn = "get_seccompany_filings" /\ pc = "primary" /\ UseLocal(args)
    /\ io' = Append(io, OpenEv(PathJoin(args.submission_dir[1],
                                        PrimaryName(args.cik))))
    /\ \E f \in Files(PrimaryBodies) :
          IF ~f.exists
          THEN /\ Raise("FileNotFoundError")
               /\ NoteFailure(Len(io'))
               /\ UNCHANGED <<r, table, k, loaded>>
          ELSE /\ FilingsSeed(f.body)
               /\ IF BodyError(f.body) # "" THEN NoteFailure(Len(io'))
                  ELSE UNCHANGED failed
    /\ FilingsUntouched

\* Lines 140-144: local-file mode, one iteration of the shard loop.
FilingsOpenShard ==
    /\ fn = "get_seccompany_filings" /\ pc = "shards" /\ UseLocal(args)
    /\ k < Len(r.files)
    /\ io' = Append(io, OpenEv(PathJoin(args.submission_dir[1], r.files[k + 1])))
    /\ \E f \in Files(ShardBodies) :
          IF ~f.exists \/ BodyError(f.body) # ""
          THEN /\ Raise(IF ~f.exists THEN "FileNotFoundError"
                        ELSE BodyError(f.body))
               /\ NoteFailure(Len(io'))
               /\ UNCHANGED <<table, k, loaded>>
          ELSE /\ table' = Concat(table, DataFrame(f.body.page))
               /\ loaded' = Append(loaded, f.body.page)
               /\ k' = k + 1
               /\ UNCHANGED <<pc, exc, ret, failed>>
    /\ UNCHANGED r
    /\ FilingsUntouched

\* Lines 146-149: live-fetch mode, the primary page.  requests.get returns a
\* response whatever the HTTP status, and the status is never looked at: an
\* error answer ends the call only through the exception its body raises.
FilingsGetPrimary ==
    /\ fn = "get_seccompany_filings" /\ pc = "primary" /\ ~UseLocal(args)
    /\ io' = Append(io, GetEv(SubmissionsUrl(PrimaryName(args.cik)),
                              FilingsHeaders(args), NoParams))
    /\ \E resp \in Responses(PrimaryBodies, BrokenBodies) :
          IF resp.transport = "error"
          THEN /\ Raise("ConnectionError")
               /\ NoteFailure(Len(io'))
               /\ UNCHANGED <<r, table, k, loaded>>
          ELSE /\ FilingsSeed(resp.body)
               /\ IF resp.status # 200 \/ BodyError(resp.body) # ""
                  THEN NoteFailure(Len(io'))
                  ELSE UNCHANGED failed
    /\ FilingsUntouched

ShardEventsNoSleep(get) == <<get>>
\* Lines 153-155: the I/O of a completed iteration: the GET, then the sleep.
ShardEvents(get) == <<get, SleepEv(SleepMs)>>

\* Lines 151-155: live-fetch mode, one iteration of the shard loop.
FilingsGetShard ==
    /\ fn = "get_seccompany_filings" /\ pc = "shards" /\ ~UseLocal(args)
    /\ k < Len(r.files)
    /\ LET get == GetEv(SubmissionsUrl(r.files[k + 1]),
                        FilingsHeaders(args), NoParams)
       IN  \E resp \in Responses(ShardBodies, ShardErrorBodies) :
             IF resp.transport = "error"
             THEN /\ io' = Append(io, get)
                  /\ Raise("ConnectionError")
                  /\ NoteFailure(Len(io'))
                  /\ UNCHANGED <<table, k, loaded>>
             ELSE IF BodyError(resp.body) # ""
             THEN /\ io' = Append(io, get)
                  /\ Raise(BodyError(resp.body))
                  /\ NoteFailure(Len(io'))
                  /\ UNCHANGED <<table, k, loaded>>
             ELSE /\ io' = io \o ShardEvents(get)
                  /\ table' = Concat(table, DataFrame(resp.body.page))
                  /\ loaded' = Append(loaded, resp.body.page)
                  /\ k' = k + 1
                  /\ IF resp.status # 200 THEN NoteFailure(Len(io) + 1)
                     ELSE UNCHANGED failed
                  /\ UNCHANGED <<pc, exc, ret>>
    /\ UNCHANGED r
    /\ FilingsUntouched

\* Lines 158-161: sort, renumber, return.
FilingsReturn ==
    /\ fn = "get_seccompany_filings" /\ pc = "shards"
    /\ k = Len(r.files)
    /\ table' = ResetIndex(SortValues(table, "acceptanceDateTime"))
    /\ ret' = Some(table')
    /\ pc' = "done"
    /\ UNCHANGED <<io, exc, r, k, loaded, failed>>
    /\ FilingsUntouched

-----------------------------------------------------------------------------
(* get_sec_companies(email)                                                *)

IntVal(n) == [t |-> "int", n |-> n]
StrVal(s) == [t |-> "str", s |-> s]

Digit(d) ==
    CASE d = 0 -> "0" [] d = 1 -> "1" [] d = 2 -> "2" [] d = 3 -> "3"
      [] d = 4 -> "4" [] d = 5 -> "5" [] d = 6 -> "6" [] d = 7 -> "7"
      [] d = 8 -> "8" [] d = 9 -> "9"

RECURSIVE Str(_)
\* str(n) of a non-negative int: its decimal digits.
Str(n) == IF n < 10 THEN Digit(n) ELSE Str(n \div 10) \o Digit(n % 10)

\* .astype(str) of one cell.
AsTypeStr(v) == IF v.t = "int" THEN StrVal(Str(v.n)) ELSE v

ZfillUnpadded(s, w) == s
RECURSIVE Zfill(_, _)
\* s.zfill(w): '0's on the left until the width is reached, never a cut.
Zfill(s, w) == IF Len(s) >= w THEN s ELSE Zfill("0" \o s, w)

\* The value-records of the registry: cik_str is a JSON number.
Companies ==
    { [cik_str |-> IntVal(320193),     ticker |-> StrVal("AAPL"),
       title |-> StrVal("Apple Inc.")],
      [cik_str |-> IntVal(1652044),    ticker |-> StrVal("GOOGL"),
       title |-> StrVal("Alphabet Inc.")],
      [cik_str |-> IntVal(1652044),    ticker |-> StrVal("GOOG"),
       title |-> StrVal("Alphabet Inc.")],
      [cik_str |-> IntVal(1234567890), ticker |-> StrVal("TEN"),
       title |-> StrVal("Ten Digits Corp.")] }

RecordKeys == {"cik_str", "ticker", "title"}
\* The orders in which a JSON record can list its three fields.
KeyOrders ==
    {o \in [1..3 -> RecordKeys] : \A i, j \in 1..3 : o[i] = o[j] => i = j}

\* r.json(): the records of the mapping, each listing its fields in `order'.
Mappings == [order : KeyOrders, recs : SeqsUpTo(Companies, MaxRecs)]

RegistryBodies ==
    BrokenBodies \cup {[kind |-> "doc", doc |-> m] : m \in Mappings}

CompaniesArgs == [email : {"jane@uni.org", "joe@firm.com"}]

\* headers = {'User-Agent': 'email'}: the literal, not the parameter.
CompaniesHeaders(a) == "User-Agent" :> "email"

CompaniesUrl == "https://www.sec.gov/files/company_tickers.json"

\* Line 32: one row per value-record, the columns in the order in which the
\* records list their fields; cells are positional.
JsonNormalize(m) ==
    [columns |-> m.order,
     cells   |-> [i \in 1..Len(m.recs) |->
                     [c \in 1..Len(m.order) |-> m.recs[i][m.order[c]]]]]

ColumnAt(f, name) == CHOOSE c \in 1..Len(f.columns) : f.columns[c] = name

\* Line 33: a new last column 'cik', the padded string form of 'cik_str'.
AddCikColumn(f) ==
    [columns |-> Append(f.columns, "cik"),
     cells   |-> [i \in 1..Len(f.cells) |->
                     Append(f.cells[i],
                            StrVal(Zfill(AsTypeStr(
                                f.cells[i][ColumnAt(f, "cik_str")]).s,
                                ZfillWidth)))]]

\* Line 34: the names given to the four columns, by position.
NewColumns == <<"cik", "ticker", "title", "cik_long">>

\* Line 34: tickers_cik.columns = [...]
Rename(f) == [f EXCEPT !.columns = NewColumns]

OutColumns == <<"ticker", "title", "cik", "cik_long">>

\* Line 36: .loc[:, [...]]: the named columns, in the order asked for.
Select(f, names) ==
    [columns |-> names,
     rows    |-> [i \in 1..Len(f.cells) |->
                     [index    |-> i - 1,
                      ticker   |-> f.cells[i][ColumnAt(f, "ticker")],
                      title    |-> f.cells[i][ColumnAt(f, "title")],
                      cik      |-> f.cells[i][ColumnAt(f, "cik")],
                      cik_long |-> f.cells[i][ColumnAt(f, "cik_long")]]]]

OtherUntouched == UNCHANGED <<fn, args, table, k, started, no_info, printed,
                              loaded, failed>>

\* Lines 28-36: the whole function.
GetSecCompanies ==
    /\ fn = "get_sec_companies" /\ pc = "start"
    /\ io' = Append(io, GetEv(CompaniesUrl, CompaniesHeaders(args), NoParams))
    /\ \E resp \in Responses(RegistryBodies, BrokenBodies) :
          IF resp.transport = "error"
          THEN Raise("ConnectionError") /\ UNCHANGED r
          ELSE IF BodyError(resp.body) # ""
          THEN Raise(BodyError(resp.body)) /\ UNCHANGED r
          ELSE IF resp.body.doc.recs = <<>>
          THEN Raise("KeyError") /\ r' = resp.body.doc
          ELSE /\ r' = resp.body.doc
               /\ ret' = Some(Select(Rename(AddCikColumn(
                               JsonNormalize(resp.body.doc))), OutColumns))
               /\ pc' = "done"
               /\ UNCHANGED exc
    /\ OtherUntouched

-----------------------------------------------------------------------------
(* get_sec_company_information(sec_companies, submission_dir)              *)

CikLongs == {"0000320193", "0001652044", "0000789019"}

\* The registry table: at least one row, as get_sec_companies returns it.
Registries ==
    {s \in SeqsUpTo([cik_long : CikLongs], MaxReg) : s # <<>>}

InfoArgs == [sec_companies : Registries, submission_dir : {"subs"}]

\* Series.duplicated(): every occurrence of a value but its first.
Duplicated(col) ==
    [i \in 1..Len(col) |-> \E j \in 1..(i - 1) : col[j] = col[i]]

RECURSIVE Filter(_, _)
\* frame[mask]: the rows whose mask entry is true, in order.
Filter(rows, mask) ==
    IF rows = <<>> THEN <<>>
    ELSE LET rest == Filter(Tail(rows), Tail(mask))
         IN  IF Head(mask) THEN <<Head(rows)>> \o rest ELSE rest

CikLongColumn(rows) == [i \in 1..Len(rows) |-> rows[i].cik_long]

\* Line 72
CiksWithMultipleTickers(rows) ==
    CikLongColumn(Filter(rows, Duplicated(CikLongColumn(rows))))

\* Line 73
UniqueCikCompanies(rows) ==
    Filter(rows, [i \in 1..Len(rows) |-> ~Duplicated(CikLongColumn(rows))[i]])

HasMultipleNever(cik, multiple) == FALSE
\* Line 87: cik in ciks_with_multiple_tickers
HasMultiple(cik, multiple) == cik \in Range(multiple)

\* A metadata document cut down to the known keys: the two list-valued ones
\* and `name' for the scalar-valued ones; None is an absent key.
TickerLists == {<<>>, <<"AAPL">>, <<"GOOGL", "GOOG">>}
ExchangeLists == {<<>>, <<"Nasdaq">>, <<"Nasdaq", "Nasdaq">>}
MetaDocs ==
    [tickers   : {None} \cup {Some(l) : l \in TickerLists},
     exchanges : {None} \cup {Some(l) : l \in ExchangeLists},
     name      : {None, Some("Apple Inc.")}]

MetaBodies ==
    {[kind |-> "notjson"]} \cup {[kind |-> "doc", doc |-> d] : d \in MetaDocs}

\* The lengths of the lists among the document's known values.
ListLengths(d) ==
    {Len(l[1]) : l \in {x \in {d.tickers, d.exchanges} : x # None}}

\* Line 83: pd.DataFrame(dict) raises when the lists differ in length and
\* when there are scalars only; an empty dict gives an empty frame.
FrameRaises(d) ==
    \/ Cardinality(ListLengths(d)) > 1
    \/ ListLengths(d) = {} /\ d.name # None

\* Line 84: company_info_tmp.shape[0]
FrameRowCount(d) ==
    IF ListLengths(d) = {} THEN 0 ELSE CHOOSE n \in ListLengths(d) : TRUE

InfoUntouched == UNCHANGED <<fn, args, failed>>

\* Lines 72-76
InfoPrepare ==
    /\ fn = "get_sec_company_information" /\ pc = "start"
    /\ r' = [ciks_with_multiple_tickers |->
                 CiksWithMultipleTickers(args.sec_companies),
             unique_cik_companies |->
                 UniqueCikCompanies(args.sec_companies)]
    /\ started' = FALSE
    /\ no_info' = 0
    /\ k' = 0
    /\ pc' = "loop"
    /\ UNCHANGED <<io, exc, ret, table, printed, loaded>>
    /\ InfoUntouched

\* Lines 77-96: one iteration of the loop over the unique entities.
InfoIterate ==
    /\ fn = "get_sec_company_information" /\ pc = "loop"
    /\ k < Len(r.unique_cik_companies)
    /\ LET cik == r.unique_cik_companies[k + 1].cik_long
       IN  /\ io' = Append(io, OpenEv(PathJoin(args.submission_dir,
                                               "CIK" \o cik \o ".json")))
           /\ \E f \in Files(MetaBodies) :
                 IF ~f.exists
                 THEN /\ Raise("FileNotFoundError")
                      /\ UNCHANGED <<table, k, started, no_info, loaded>>
                 ELSE IF BodyError(f.body) # ""
                 THEN /\ Raise(BodyError(f.body))
                      /\ UNCHANGED <<table, k, started, no_info, loaded>>
                 ELSE IF FrameRaises(f.body.doc)
                 THEN /\ Raise("ValueError")
                      /\ UNCHANGED <<table, k, started, no_info, loaded>>
                 ELSE IF FrameRowCount(f.body.doc) = 0
                 THEN /\ no_info' = no_info + 1
                      /\ k' = k + 1
                      /\ loaded' = Append(loaded, "empty")
                      /\ UNCHANGED <<pc, exc, ret, table, started>>
                 ELSE /\ table' =
                           Concat(table,
                                  <<[index |-> 0,
                                     entity |-> cik,
                                     has_multiple_symbols |->
                                        HasMultiple(cik,
                                            r.ciks_with_multiple_tickers)]>>)
                      /\ started' = TRUE
                      /\ k' = k + 1
                      /\ loaded' = Append(loaded, "usable")
                      /\ UNCHANGED <<pc, exc, ret, no_info>>
    /\ UNCHANGED <<r, printed>>
    /\ InfoUntouched

\* Lines 98-101: company_info is bound only once a row was kept.
InfoReturn ==
    /\ fn = "get_sec_company_information" /\ pc = "loop"
    /\ k = Len(r.unique_cik_companies)
    /\ IF ~started
       THEN Raise("UnboundLocalError") /\ UNCHANGED <<table, printed>>
       ELSE /\ table' = ResetIndex(table)
            /\ printed' = no_info
            /\ ret' = Some(table')
            /\ pc' = "done"
            /\ UNCHANGED exc
    /\ UNCHANGED <<io, r, k, started, no_info, loaded>>
    /\ InfoUntouched

-----------------------------------------------------------------------------
(* get_fmp_stock_data(apikey, ticker, start_date = None, end_date = None)  *)

DateArgs == {None, Some(""), Some("2020-01-01"), Some("2021-01-01")}

FmpArgs ==
    [apikey : {"KEY"}, ticker : {"ABC"},
     start_date : DateArgs, end_date : DateArgs]

EndWithoutStartNever(a) == FALSE
\* Line 191: if end_date and not(start_date)
EndWithoutStart(a) == Truthy(a.end_date) /\ ~Truthy(a.start_date)

FmpUrl(a) ==
    "https://financialmodelingprep.com/api/v3/historical-price-full/"
        \o a.ticker

\* Lines 194-198
FmpParameters(a) ==
    LET p0 == "apikey" :> a.apikey
        p1 == IF Truthy(a.start_date) THEN p0 @@ ("from" :> a.start_date[1])
              ELSE p0
    IN  IF Truthy(a.end_date) THEN p1 @@ ("to" :> a.end_date[1]) ELSE p1

NoHeaders == <<>>

\* The entries of r.json()['historical'], dates as their rank in time order.
PriceBars == {[date |-> 1, close |-> 101], [date |-> 2, close |-> 99]}

PriceBodies ==
    BrokenBodies
        \cup {[kind |-> "doc", doc |-> h] : h \in SeqsUpTo(PriceBars, MaxBars)}

\* Line 202: pd.DataFrame(list of records)
PriceFrame(h) ==
    [i \in 1..Len(h) |->
        [index |-> i - 1, date |-> h[i].date, close |-> h[i].close]]

\* Line 205: .loc[:, [...]] keeps the price columns and drops `date'.
PriceColumns(t) ==
    [i \in 1..Len(t) |-> [index |-> t[i].index, close |-> t[i].close]]

FmpUntouched == UNCHANGED <<fn, args, r, k, started, no_info, printed,
                            loaded, failed>>

\* Lines 191-192
FmpCheckArgs ==
    /\ fn = "get_fmp_stock_data" /\ pc = "start"
    /\ IF EndWithoutStart(args) THEN Raise("ValueError")
       ELSE pc' = "get" /\ UNCHANGED <<exc, ret>>
    /\ UNCHANGED <<io, table>>
    /\ FmpUntouched

\* Lines 194-205.  An empty `historical' gives a frame without columns, and
\* sorting it by 'date' raises KeyError.
FmpGet ==
    /\ fn = "get_fmp_stock_data" /\ pc = "get"
    /\ io' = Append(io, GetEv(FmpUrl(args), NoHeaders, FmpParameters(args)))
    /\ \E resp \in Responses(PriceBodies, BrokenBodies) :
          IF resp.transport = "error"
          THEN Raise("ConnectionError") /\ UNCHANGED table
          ELSE IF BodyError(resp.body) # ""
          THEN Raise(BodyError(resp.body)) /\ UNCHANGED table
          ELSE IF resp.body.doc = <<>>
          THEN Raise("KeyError") /\ UNCHANGED table
          ELSE /\ table' = ResetIndex(SortValues(PriceFrame(resp.body.doc),
                                               "date"))
               /\ ret' = Some(PriceColumns(table'))
               /\ pc' = "done"
               /\ UNCHANGED exc
    /\ FmpUntouched

-----------------------------------------------------------------------------
(* One call. *)

Calls ==
    {[fn |-> "get_sec_companies", args |-> a] : a \in CompaniesArgs}
        \cup {[fn |-> "get_sec_company_information", args |-> a] :
                 a \in InfoArgs}
        \cup {[fn |-> "get_seccompany_filings", args |-> a] :
                 a \in FilingsArgs}
        \cup {[fn |-> "get_fmp_stock_data", args |-> a] : a \in FmpArgs}

Init ==
    /\ \E c \in Calls : fn = c.fn /\ args = c.args
    /\ pc = "start"
    /\ io = <<>>
    /\ exc = ""
    /\ ret = None
    /\ r = <<>>
    /\ table = <<>>
    /\ k = 0
    /\ started = FALSE
    /\ no_info = 0
    /\ printed = -1
    /\ loaded = <<>>
    /\ failed = 0

Next ==
    \/ GetSecCompanies
    \/ InfoPrepare
    \/ InfoIterate
    \/ InfoReturn
    \/ FilingsCheckArgs
    \/ FilingsOpenPrimary
    \/ FilingsOpenShard
    \/ FilingsGetPrimary
    \/ FilingsGetShard
    \/ FilingsReturn
    \/ FmpCheckArgs
    \/ FmpGet

Spec == Init /\ [][Next]_vars

-----------------------------------------------------------------------------
(* Properties. *)

IsGet(e) == e.kind = "GET"
IsOpen(e) == e.kind = "open"

\* The HTTP GETs and the file opens of the call, in order.
Gets == SelectSeq(io, IsGet)
Opens == SelectSeq(io, IsOpen)

RECURSIVE SumLen(_)
\* The total number of rows of a sequence of pages.
SumLen(pages) ==
    IF pages = <<>> THEN 0 ELSE Len(Head(pages)) + SumLen(Tail(pages))

\* How many entries of the sequence s are v.
Count(s, v) == Cardinality({i \in 1..Len(s) : s[i] = v})

RECURSIVE Flatten(_)
Flatten(pages) ==
    IF pages = <<>> THEN <<>> ELSE Head(pages) \o Flatten(Tail(pages))

InFilings == fn = "get_seccompany_filings"

\* C1: a completed get_seccompany_filings call, in either mode, returns
\* exactly the rows of the recent page and of the K shard pages (N + m1 + ...
\* + mK rows, each acceptanceDateTime as often as the pages hold it), in
\* non-decreasing order of acceptanceDateTime, with row indices 0..n-1.  The
\* pages are pages of filings: every row has an acceptanceDateTime.
C1_AssemblyComplete ==
    (InFilings /\ pc = "done" /\ NaN \notin Range(Flatten(loaded))) =>
        LET t == ret[1]
            n == SumLen(loaded)
            all == Flatten(loaded)
        IN  /\ Len(loaded) = 1 + Len(r.files)
            /\ loaded[1] = r.recent
            /\ Len(t) = n
            /\ \A v \in AcceptanceTimes :
                  Cardinality({i \in 1..Len(t) : t[i].acceptanceDateTime = v})
                      = Cardinality({i \in 1..Len(all) : all[i] = v})
            /\ \A i \in 1..(Len(t) - 1) :
                  t[i].acceptanceDateTime <= t[i + 1].acceptanceDateTime
            /\ \A i \in 1..Len(t) : t[i].index = i - 1

\* C1 witness: a call with N = 2 and shards that completed although the
\* latest row came first and the earliest came last.
C1_Witness ==
    /\ InFilings /\ pc = "done"
    /\ Len(loaded) = 3
    /\ loaded[1] = <<2, 1>>
    /\ loaded[2] = <<2>>
    /\ loaded[3] = <<1>>
    /\ Len(ret[1]) = 4

\* C2: with a cik whose length is not 10, or with neither submission_dir nor
\* email given, get_seccompany_filings performs no I/O at all and can only
\* end by raising the argument error.
C2_RejectBeforeIO ==
    (/\ InFilings
     /\ \/ Len(args.cik.val) # 10
        \/ args.submission_dir = None /\ args.email = None) =>
        /\ io = <<>>
        /\ pc \in {"start", "raised"}
        /\ pc = "raised" => exc \in {"AssertionError", "ValueError"}
        /\ ret = None

\* C2 witness: a three-character cik was rejected although a directory was
\* given.
C2_Witness ==
    /\ InFilings /\ pc = "raised" /\ exc = "AssertionError"
    /\ args.cik.val = "123"
    /\ Truthy(args.submission_dir)
    /\ io = <<>>

RECURSIVE Zeros(_)
Zeros(n) == IF n = 0 THEN "" ELSE "0" \o Zeros(n - 1)

\* s is base left-padded with '0' to exactly 10 characters.
PaddedTo10(s, base) ==
    /\ Len(s) = 10
    /\ \E z \in 0..10 : s = Zeros(z) \o base

CanonicalOrder == <<"cik_str", "ticker", "title">>

C4_UserAgentVerbatim ==
    fn = "get_sec_companies" =>
        \A i \in 1..Len(Gets) : Gets[i].headers["User-Agent"] = args.email

\* C5 as stated: once a fetch or file read of get_seccompany_filings has
\* failed (transport failure, HTTP error status, absent file, content that
\* does not parse), the call has raised, no request or file read follows the
\* failing one and no table is returned.
C5_FailureAborts ==
    (InFilings /\ failed # 0) =>
        /\ pc = "raised"
        /\ ret = None
        /\ \A i \in (failed + 1)..Len(io) : io[i].kind = "sleep"

\* The positions in io of the shard GETs: every GET but the first.
ShardGetAt == {i \in 2..Len(io) : io[i].kind = "GET"}

\* C6: in live-fetch mode, between any two shard GETs there is a sleep of at
\* least 100 ms, and the shards are requested in the order of filings.files.
C6_PacedShardFetches ==
    (InFilings /\ ~Truthy(args.submission_dir)) =>
        /\ \A i, j \in ShardGetAt :
              i < j => \E l \in (i + 1)..(j - 1) :
                          io[l].kind = "sleep" /\ io[l].ms >= 100
        /\ \A n \in 2..Len(Gets) :
              /\ n - 1 <= Len(r.files)
              /\ Gets[n].url = "https://data.sec.gov/submissions/"
                                  \o r.files[n - 1]

\* C6 witness: two shards were fetched, in an order that is not the order of
\* their names.
C6_Witness ==
    /\ InFilings /\ ~Truthy(args.submission_dir)
    /\ Cardinality(ShardGetAt) = 2
    /\ r.files = <<"CIK0000320193-submissions-002.json",
                   "CIK0000320193-submissions-001.json">>

Occurrences(reg, c) == Cardinality({i \in 1..Len(reg) : reg[i].cik_long = c})
FirstAt(reg, c) ==
    CHOOSE i \in 1..Len(reg) :
        /\ reg[i].cik_long = c
        /\ \A j \in 1..(i - 1) : reg[j].cik_long # c

\* C7: when every metadata document is usable, the result of
\* get_sec_company_information has exactly one row per distinct cik_long, in
\* the order of first occurrence in the registry, and has_multiple_symbols is
\* true exactly for the cik_long values that occur in two or more rows.
C7_OneRowPerEntity ==
    (/\ fn = "get_sec_company_information" /\ pc = "done"
     /\ \A i \in 1..Len(loaded) : loaded[i] = "usable") =>
        LET reg == args.sec_companies
            t == ret[1]
            distinct == {reg[i].cik_long : i \in 1..Len(reg)}
        IN  /\ Len(t) = Cardinality(distinct)
            /\ \A c \in distinct :
                  Cardinality({i \in 1..Len(t) : t[i].entity = c}) = 1
            /\ \A i, j \in 1..Len(t) :
                  i < j => FirstAt(reg, t[i].entity) < FirstAt(reg, t[j].entity)
            /\ \A i \in 1..Len(t) :
                  /\ t[i].index = i - 1
                  /\ t[i].has_multiple_symbols
                        <=> Occurrences(reg, t[i].entity) >= 2

\* C7 witness: a registry with one entity under two tickers and another
\* under one, both with usable documents.
C7_Witness ==
    /\ fn = "get_sec_company_information" /\ pc = "done"
    /\ \A i \in 1..Len(loaded) : loaded[i] = "usable"
    /\ Len(ret[1]) = 2
    /\ ret[1][1].has_multiple_symbols
    /\ ~ret[1][2].has_multiple_symbols

\* C8 as stated: when every file of the working set is present and gives a
\* usable record or zero rows, get_sec_company_information completes, returns
\* the rows of the usable entities indexed 0..n-1 and reports the number of
\* skipped entities, also when every entity is skipped.
C8_SkipNeverFails ==
    (/\ fn = "get_sec_company_information" /\ pc \in {"done", "raised"}
     /\ Len(loaded) = Len(r.unique_cik_companies)) =>
        /\ pc = "done"
        /\ Len(ret[1]) = Count(loaded, "usable")
        /\ \A i \in 1..Len(ret[1]) : ret[1][i].index = i - 1
        /\ printed = Count(loaded, "empty")

\* C9: get_fmp_stock_data called with an end_date and no start_date issues no
\* HTTP request and can only end by raising the usage error.
C9_EndWithoutStartRejected ==
    (/\ fn = "get_fmp_stock_data"
     /\ Truthy(args.end_date) /\ args.start_date = None) =>
        /\ io = <<>>
        /\ pc \in {"start", "raised"}
        /\ pc = "raised" => exc = "ValueError"
        /\ ret = None

\* C9 witness: such a call was rejected.
C9_Witness ==
    /\ fn = "get_fmp_stock_data" /\ pc = "raised" /\ exc = "ValueError"
    /\ args.end_date = Some("2020-01-01") /\ args.start_date = None
    /\ io = <<>>

\* The name of the n-th document a filings call loads: the primary document,
\* then the entries of filings.files in order.
NthName(n) == IF n = 1 THEN "CIK" \o args.cik.val \o ".json" ELSE r.files[n - 1]

\* C10: a get_seccompany_filings call uses one data source.  With a
\* submission_dir (with or without email) it issues no HTTP request and reads
\* the primary file, then the shard files in the order of filings.files, from
\* that directory; with an email only it opens no file and issues the GET of
\* the primary page, then of the K shards in order, 1 + K in all when it
\* completes, each with the email as User-Agent.
C10_OneSourcePerCall ==
    InFilings =>
        /\ Truthy(args.submission_dir) =>
              /\ \A i \in 1..Len(io) : io[i].kind = "open"
              /\ \A n \in 1..Len(io) :
                    io[n].path = args.submission_dir[1] \o "/" \o NthName(n)
              /\ pc = "done" => Len(io) = 1 + Len(r.files)
        /\ (~Truthy(args.submission_dir) /\ Truthy(args.email)) =>
              /\ Opens = <<>>
              /\ \A n \in 1..Len(Gets) :
                    /\ Gets[n].url =
                          "https://data.sec.gov/submissions/" \o NthName(n)
                    /\ Gets[n].headers["User-Agent"] = args.email[1]
              /\ pc = "done" => Len(Gets) = 1 + Len(r.files)

\* C10 witness: a call given both a directory and an email completed with
\* two shards.
C10_Witness ==
    /\ InFilings /\ pc = "done"
    /\ Truthy(args.submission_dir) /\ Truthy(args.email)
    /\ Len(r.files) = 2
    /\ Len(io) = 3

====
